---- MODULE Spec2Model ----
(***************************************************************************)
(* Model of the data-preparation pipeline of the IND320 dashboard          *)
(* (app/utils/common.py and the pages that call it).                       *)
(*                                                                         *)
(* Text is modelled as a sequence of Unicode code points, so that string   *)
(* formatting, equality and Python's lexicographic ordering are computed   *)
(* and not assumed.                                                        *)
(***************************************************************************)
EXTENDS Integers, Sequences, FiniteSets, TLC

VARIABLES
    names,      \* make_unique: the list of names handed to the first call
    outs,       \* make_unique: the lists returned by the successive calls
    file,       \* loader: the delimited file on disk (header and rows)
    table,      \* loader: what load_time_indexed_data returned (None before)
    derived,    \* month helpers: the last value a helper returned
    frame,      \* scaling: the caller's frame object
    scaled,     \* scaling: what scale_numeric_frame returned (None before)
    files,      \* session: path -> file on disk
    store,      \* session: connection settings -> document collection
    secrets,    \* session: the connection settings st.secrets holds now
    csvCache,   \* session: st.cache_data entries of load_time_indexed_data
    mongoCache, \* session: st.cache_data entries of load_data_from_mongo
    loaded,     \* session: source identities a request already got a table for
    lastReq,    \* session: the last load request and its outcome
    nreq,       \* session: number of requests made
    found,      \* document store: the documents coll.find returns
    fetched,    \* document store: what load_data_from_mongo returned (None before)
    columns,    \* column namer: the column names given to the namer
    pretty      \* column namer: what the namer returned (None before)

namesVars == <<names, outs>>
tableVars == <<file, table, derived>>
scaleVars == <<frame, scaled>>
sessVars  == <<files, store, secrets, csvCache, mongoCache, loaded, lastReq, nreq>>
mongoVars == <<found, fetched>>
prettyVars == <<columns, pretty>>
vars      == <<names, outs, file, table, derived, frame, scaled,
               files, store, secrets, csvCache, mongoCache, loaded, lastReq, nreq,
               found, fetched, columns, pretty>>

---------------------------------------------------------------------------
(* Bounds of the model *)

MaxNames     == 3   \* longest list of names given to make_unique
MaxApply     == 2   \* how many times make_unique is applied in a row
MaxFileRows  == 3   \* most data rows of a delimited file
MaxFrameRows == 3   \* most rows of a frame given to scale_numeric_frame
MaxRequests  == 4   \* most load requests of a session
MaxDocs      == 3   \* most documents of a fetched collection
MaxBase      == 4   \* longest base of a generated column name
MaxColumns   == 3   \* most numeric columns offered on the Charts page

---------------------------------------------------------------------------
(* Text *)

\* Python's str comparison a <= b: by code point, a proper prefix is smaller.
RECURSIVE StrLeq(_, _)
StrLeq(a, b) ==
    IF a = <<>> THEN TRUE
    ELSE IF b = <<>> THEN FALSE
    ELSE IF a[1] # b[1] THEN a[1] < b[1]
    ELSE StrLeq(Tail(a), Tail(b))

StrLess(a, b) == StrLeq(a, b) /\ a # b

IsDigit(c) == c >= 48 /\ c <= 57

\* str(k) for an integer k >= 0
RECURSIVE DecStr(_)
DecStr(k) == IF k < 10 THEN <<48 + k>> ELSE DecStr(k \div 10) \o <<48 + (k % 10)>>

\* the zero-padded decimal of k on w digits (f"{k:0wd}")
RECURSIVE Zeros(_)
Zeros(n) == IF n <= 0 THEN <<>> ELSE <<48>> \o Zeros(n - 1)

PadStr(k, w) == Zeros(w - Len(DecStr(k))) \o DecStr(k)

\* int(s) for a string of decimal digits
RECURSIVE DigitsVal(_)
DigitsVal(s) == IF s = <<>> THEN 0
                ELSE 10 * DigitsVal(SubSeq(s, 1, Len(s) - 1)) + (s[Len(s)] - 48)

AllDigits(s) == \A i \in 1..Len(s) : IsDigit(s[i])

NoDuplicates(s) == \A i, j \in 1..Len(s) : i # j => s[i] # s[j]

SeqsUpTo(S, n) == UNION {[1..k -> S] : k \in 0..n}

---------------------------------------------------------------------------
(* Column Namer: make_unique *)

\* f"{n} ({k})"
Suffixed(n, k) == n \o <<32, 40>> \o DecStr(k) \o <<41>>

\* the for loop of make_unique from position i on, with the dict `seen` and
\* the list `unique` built so far
RECURSIVE MakeUniqueLoop(_, _, _, _)
MakeUniqueLoop(ns, i, seen, unique) ==
    IF i > Len(ns) THEN unique
    ELSE LET n == ns[i] IN
         IF n \notin DOMAIN seen
         THEN MakeUniqueLoop(ns, i + 1, seen @@ (n :> 1), Append(unique, n))
         ELSE LET k == seen[n] + 1 IN
              MakeUniqueLoop(ns, i + 1, [seen EXCEPT ![n] = k],
                             Append(unique, Suffixed(n, k)))

make_unique(ns) == MakeUniqueLoop(ns, 1, <<>>, <<>>)

---------------------------------------------------------------------------
(* Column Namer: prettify_column_name *)

IsSpace(c)    == c \in {9, 10, 11, 12, 13, 32}
IsLower(c)    == c >= 97 /\ c <= 122
IsUpper(c)    == c >= 65 /\ c <= 90
IsLetter(c)   == IsLower(c) \/ IsUpper(c)
IsWordChar(c) == IsLetter(c) \/ IsDigit(c) \/ c = 95

\* str.strip()
RECURSIVE LStrip(_)
LStrip(s) == IF s # <<>> /\ IsSpace(s[1]) THEN LStrip(Tail(s)) ELSE s

RECURSIVE RStrip(_)
RStrip(s) == IF s # <<>> /\ IsSpace(s[Len(s)]) THEN RStrip(SubSeq(s, 1, Len(s) - 1)) ELSE s

Strip(s) == LStrip(RStrip(s))

\* re.match(r"^(.*?)(\s*\(.*\)\s*)$", s) on a stripped s without line breaks:
\* it matches when s ends with ")" after some "("; the lazy first group ends
\* where the white space before the first "(" begins
UnitsMatch(s) == /\ s # <<>>
                 /\ s[Len(s)] = 41
                 /\ \E q \in 1..(Len(s) - 1) : s[q] = 40

RECURSIVE SpaceRunStart(_, _)
SpaceRunStart(s, q) == IF q > 1 /\ IsSpace(s[q - 1]) THEN SpaceRunStart(s, q - 1) ELSE q

SplitUnits(s) ==
    IF UnitsMatch(s)
    THEN LET q == CHOOSE i \in 1..Len(s) : s[i] = 40 /\ \A j \in 1..(i - 1) : s[j] # 40
             p == SpaceRunStart(s, q)
         IN [base |-> SubSeq(s, 1, p - 1), units |-> SubSeq(s, p, Len(s))]
    ELSE [base |-> s, units |-> <<>>]

\* base.replace("_", " ")
ReplaceUnderscores(s) == [i \in 1..Len(s) |-> IF s[i] = 95 THEN 32 ELSE s[i]]

\* the end of the run of digits that starts at position i
RECURSIVE DigitRunEnd(_, _)
DigitRunEnd(s, i) == IF i < Len(s) /\ IsDigit(s[i + 1]) THEN DigitRunEnd(s, i + 1) ELSE i

\* re.sub(r"(\d+)(m)\b", r"\1 \2", s, flags=re.IGNORECASE) from position i on:
\* at each position the pattern is tried; a match is digits, one m or M, and
\* then no word character
RECURSIVE SubDigitsM(_, _)
SubDigitsM(s, i) ==
    IF i > Len(s) THEN <<>>
    ELSE IF IsDigit(s[i])
         THEN LET j == DigitRunEnd(s, i) IN
              IF /\ j < Len(s)
                 /\ s[j + 1] \in {109, 77}
                 /\ (j + 1 = Len(s) \/ ~IsWordChar(s[j + 2]))
              THEN SubSeq(s, i, j) \o <<32, s[j + 1]>> \o SubDigitsM(s, j + 2)
              ELSE <<s[i]>> \o SubDigitsM(s, i + 1)
         ELSE <<s[i]>> \o SubDigitsM(s, i + 1)

\* re.sub(r"\s+", " ", s)
RECURSIVE CollapseSpaces(_)
CollapseSpaces(s) ==
    IF s = <<>> THEN <<>>
    ELSE IF IsSpace(s[1])
         THEN <<32>> \o CollapseSpaces(LStrip(s))
         ELSE <<s[1]>> \o CollapseSpaces(Tail(s))

ToUpper(c) == IF IsLower(c) THEN c - 32 ELSE c
ToLower(c) == IF IsUpper(c) THEN c + 32 ELSE c

\* str.capitalize(): the first character raised, every other one lowered
Title_capitalize(s) == [i \in 1..Len(s) |-> IF i > 1 THEN ToLower(s[i]) ELSE ToUpper(s[i])]

\* str.title(): a letter after a letter is lowered, any other letter is raised
Title(s) == [i \in 1..Len(s) |->
               IF i > 1 /\ IsLetter(s[i - 1]) THEN ToLower(s[i]) ELSE ToUpper(s[i])]

prettify_column_name(original) ==
    LET split == SplitUnits(Strip(original))
        base1 == ReplaceUnderscores(split.base)
        base2 == SubDigitsM(base1, 1)
        base3 == Title(Strip(CollapseSpaces(base2)))
    IN base3 \o split.units

\* zip of two lists into a dict: a later pair with the same key replaces the
\* earlier one
RECURSIVE DictOfZip(_, _, _)
DictOfZip(keys, values, i) ==
    IF i = 0 THEN <<>>
    ELSE LET d == DictOfZip(keys, values, i - 1) IN
         IF keys[i] \in DOMAIN d THEN [d EXCEPT ![keys[i]] = values[i]]
         ELSE d @@ (keys[i] :> values[i])

build_pretty_name_mappings(cols) ==
    LET pretties == make_unique([i \in 1..Len(cols) |-> prettify_column_name(cols[i])])
    IN [original_to_pretty |-> DictOfZip(cols, pretties, Len(cols)),
        pretty_to_original |-> DictOfZip(pretties, cols, Len(cols)),
        pretties |-> pretties]

\* "x", "y", "x (2)", "x (3)"
NameX  == <<120>>
NameY  == <<121>>
NameX2 == <<120, 32, 40, 50, 41>>
NameX3 == <<120, 32, 40, 51, 41>>
NamePool == {NameX, NameY, NameX2, NameX3}

---------------------------------------------------------------------------
(* Values of a table *)

\* A numeric cell is an exact real: (n/d) / sqrt(vn/vd) for tag "num",
\* ln(1 + n/d) for tag "log1p"; tag "nan" is the absent value (NaN).
Num(x)    == [tag |-> "num", n |-> x, d |-> 1, vn |-> 1, vd |-> 1]
NaN       == [tag |-> "nan", n |-> 0, d |-> 1, vn |-> 1, vd |-> 1]
IsNaN(c)  == c.tag = "nan"

\* A timestamp is <<year, month, day>> in UTC; NaT is the absent timestamp.
NaT == <<0, 0, 0>>

\* t1 <= t2 on timestamps; every comparison with NaT is false, as in pandas.
TsLeq(t1, t2) ==
    /\ t1 # NaT
    /\ t2 # NaT
    /\ \/ t1[1] < t2[1]
       \/ t1[1] = t2[1] /\ t1[2] < t2[2]
       \/ t1[1] = t2[1] /\ t1[2] = t2[2] /\ t1[3] <= t2[3]

IsLeap(y) == (y % 4 = 0 /\ y % 100 # 0) \/ y % 400 = 0

DaysIn(y, m) == IF m = 2 THEN (IF IsLeap(y) THEN 29 ELSE 28)
                ELSE IF m \in {4, 6, 9, 11} THEN 30 ELSE 31

\* pd.to_datetime(value, errors="coerce", utc=True) on the texts of the model:
\* an ISO date YYYY-MM-DD of a real calendar day parses, anything else is NaT.
ParseTime(s) ==
    IF /\ Len(s) = 10
       /\ s[5] = 45
       /\ s[8] = 45
       /\ AllDigits(SubSeq(s, 1, 4))
       /\ AllDigits(SubSeq(s, 6, 7))
       /\ AllDigits(SubSeq(s, 9, 10))
    THEN LET y  == DigitsVal(SubSeq(s, 1, 4))
             m  == DigitsVal(SubSeq(s, 6, 7))
             dd == DigitsVal(SubSeq(s, 9, 10))
         IN IF m >= 1 /\ m <= 12 /\ dd >= 1 /\ dd <= DaysIn(y, m)
            THEN <<y, m, dd>> ELSE NaT
    ELSE NaT

\* index.to_period("M").astype(str) of one entry: "YYYY-MM", and "NaT" for NaT
MonthStr(t) == IF t = NaT THEN <<78, 97, 84>>
               ELSE PadStr(t[1], 4) \o <<45>> \o PadStr(t[2], 2)

MonthStrings(t) == [i \in 1..Len(t.index) |-> MonthStr(t.index[i])]

\* frame.loc[mask]: the rows at the positions where mask is true, in order
RECURSIVE Positions(_, _)
Positions(mask, i) ==
    IF i > Len(mask) THEN <<>>
    ELSE (IF mask[i] THEN <<i>> ELSE <<>>) \o Positions(mask, i + 1)

TakeRows(t, pos) ==
    [kind |-> "table", columns |-> t.columns,
     index |-> [k \in 1..Len(pos) |-> t.index[pos[k]]],
     rows  |-> [k \in 1..Len(pos) |-> t.rows[pos[k]]]]

---------------------------------------------------------------------------
(* Tabular Loader: load_time_indexed_data *)

ColPos(header, name) == CHOOSE i \in 1..Len(header) :
                            header[i] = name /\ \A j \in 1..(i - 1) : header[j] # name

\* ~columns.duplicated(): the positions holding the first occurrence of a name
FirstOccurrences(header) ==
    Positions([i \in 1..Len(header) |-> \A j \in 1..(i - 1) : header[j] # header[i]], 1)

RowOrders(n) == {p \in [1..n -> 1..n] : \A i, j \in 1..n : i # j => p[i] # p[j]}

\* sort_values("time"): an order with the parsed timestamps ascending and the
\* NaT rows last in their file order.  The default sort is not stable, so the
\* order of equal timestamps is any.
SortOrders(keys) ==
    {p \in RowOrders(Len(keys)) :
        \A i, j \in 1..Len(keys) : i < j =>
            \/ TsLeq(keys[p[i]], keys[p[j]])
            \/ keys[p[i]] # NaT /\ keys[p[j]] = NaT
            \/ keys[p[i]] = NaT /\ keys[p[j]] = NaT /\ p[i] < p[j]}

KeyError == [kind |-> "error", error |-> "KeyError"]

\* the tables the loader can return for the file f (one per order of ties),
\* or the KeyError it raises
load_time_indexed_data(f) ==
    LET keep   == FirstOccurrences(f.header)
        header == [k \in 1..Len(keep) |-> f.header[keep[k]]]
        rows   == [r \in 1..Len(f.rows) |-> [k \in 1..Len(keep) |-> f.rows[r][keep[k]]]]
    IN IF \A k \in 1..Len(header) : header[k] # "time" THEN {KeyError}
       ELSE LET tp     == ColPos(header, "time")
                times  == [r \in 1..Len(rows) |-> ParseTime(rows[r][tp])]
                others == Positions([k \in 1..Len(header) |-> k # tp], 1)
            IN {[kind    |-> "table",
                 columns |-> [k \in 1..Len(others) |-> header[others[k]]],
                 index   |-> [r \in 1..Len(rows) |-> times[p[r]]],
                 rows    |-> [r \in 1..Len(rows) |->
                                [k \in 1..Len(others) |-> rows[p[r]][others[k]]]]]
                : p \in SortOrders(times)}

---------------------------------------------------------------------------
(* Month Index *)

\* pd.Index(xs).unique().tolist(): the distinct elements in order of first appearance
RECURSIVE UniqueList(_, _)
UniqueList(xs, acc) ==
    IF xs = <<>> THEN acc
    ELSE UniqueList(Tail(xs),
                    IF \E i \in 1..Len(acc) : acc[i] = xs[1] THEN acc
                    ELSE Append(acc, xs[1]))

\* sorted(xs) on strings
RECURSIVE InsertSorted(_, _)
InsertSorted(x, s) ==
    IF s = <<>> THEN <<x>>
    ELSE IF StrLess(x, s[1]) THEN <<x>> \o s
    ELSE <<s[1]>> \o InsertSorted(x, Tail(s))

RECURSIVE SortedStrs(_)
SortedStrs(xs) == IF xs = <<>> THEN <<>>
                  ELSE InsertSorted(xs[Len(xs)], SortedStrs(SubSeq(xs, 1, Len(xs) - 1)))

list_distinct_month_strings_from_index(t) == SortedStrs(UniqueList(MonthStrings(t), <<>>))

\* filter_by_month_range with the end month left out of the range
filter_by_month_range_open_end(t, start_month, end_month) ==
    LET month_strings == MonthStrings(t)
        mask == [i \in 1..Len(month_strings) |->
                    StrLeq(start_month, month_strings[i]) /\ StrLess(month_strings[i], end_month)]
    IN TakeRows(t, Positions(mask, 1))

\* the mask applied from the second matching row on
filter_by_month_range_skip_first(t, start_month, end_month) ==
    LET month_strings == MonthStrings(t)
        mask == [i \in 1..Len(month_strings) |->
                    StrLeq(start_month, month_strings[i]) /\ StrLeq(month_strings[i], end_month)]
        kept == Positions(mask, 1)
    IN TakeRows(t, IF kept = <<>> THEN kept ELSE Tail(kept))

filter_by_month_range(t, start_month, end_month) ==
    LET month_strings == MonthStrings(t)
        mask == [i \in 1..Len(month_strings) |->
                    StrLeq(start_month, month_strings[i]) /\ StrLeq(month_strings[i], end_month)]
    IN TakeRows(t, Positions(mask, 1))

---------------------------------------------------------------------------
(* Column helpers *)

\* a text cell of a table (object dtype)
Str(text) == [tag |-> "str", text |-> text]

\* list_numeric_columns: the columns of numeric dtype; read_csv gives a
\* column a numeric dtype when it has rows and every cell is a number or empty
list_numeric_columns(t) ==
    Positions([c \in 1..Len(t.columns) |->
                  /\ Len(t.rows) > 0
                  /\ \A r \in 1..Len(t.rows) : t.rows[r][c].tag \in {"num", "nan"}], 1)

---------------------------------------------------------------------------
(* Series Transformer: scale_numeric_frame *)

Column(t, col) == [r \in 1..Len(t.rows) |-> t.rows[r][ColPos(t.columns, col)]]

\* frame[col] = series
SetColumn(t, col, series) ==
    [t EXCEPT !.rows = [r \in 1..Len(t.rows) |->
                          [t.rows[r] EXCEPT ![ColPos(t.columns, col)] = series[r]]]]

Present(series) == {r \in 1..Len(series) : ~IsNaN(series[r])}

RECURSIVE SumOver(_, _)
SumOver(S, f) == IF S = {} THEN 0
                 ELSE LET r == CHOOSE x \in S : TRUE IN f[r] + SumOver(S \ {r}, f)

\* series.min() and series.max() skip NaN
SeriesMin(series) == CHOOSE v \in {series[r].n : r \in Present(series)} :
                        \A r \in Present(series) : v <= series[r].n
SeriesMax(series) == CHOOSE v \in {series[r].n : r \in Present(series)} :
                        \A r \in Present(series) : v >= series[r].n

AllNaN(series) == [r \in 1..Len(series) |-> NaN]

\* minmax that divides by the range without subtracting the minimum
MinMaxSeries_no_shift(series) ==
    IF Present(series) = {} THEN AllNaN(series)
    ELSE LET rng == SeriesMax(series) - SeriesMin(series)
         IN [r \in 1..Len(series) |->
               IF IsNaN(series[r]) THEN NaN
               ELSE [tag |-> "num", n |-> series[r].n,
                     d |-> IF rng # 0 THEN rng ELSE 1, vn |-> 1, vd |-> 1]]

\* (series - series.min()) / (rng if rng != 0 else 1.0); with no value present
\* min, max and rng are NaN, NaN != 0, and every quotient is NaN
MinMaxSeries(series) ==
    IF Present(series) = {} THEN AllNaN(series)
    ELSE LET lo  == SeriesMin(series)
             rng == SeriesMax(series) - SeriesMin(series)
         IN [r \in 1..Len(series) |->
               IF IsNaN(series[r]) THEN NaN
               ELSE [tag |-> "num", n |-> series[r].n - lo,
                     d |-> IF rng # 0 THEN rng ELSE 1, vn |-> 1, vd |-> 1]]

\* (series - series.mean()) / (std if std != 0 else 1.0); std is the sample
\* standard deviation (ddof=1), NaN for fewer than two values
ZScoreSeries(series) ==
    LET P   == Present(series)
        cnt == Cardinality(P)
        S   == SumOver(P, [r \in P |-> series[r].n])
        SS  == SumOver(P, [r \in P |-> series[r].n * series[r].n])
        var == cnt * SS - S * S
    IN IF cnt < 2 THEN AllNaN(series)
       ELSE [r \in 1..Len(series) |->
               IF IsNaN(series[r]) THEN NaN
               ELSE IF var = 0
                    THEN [tag |-> "num", n |-> cnt * series[r].n - S, d |-> cnt,
                          vn |-> 1, vd |-> 1]
                    ELSE [tag |-> "num", n |-> cnt * series[r].n - S, d |-> cnt,
                          vn |-> var, vd |-> cnt * (cnt - 1)]]

\* np.log1p(series.clip(lower=0))
Log1pSeries(series) ==
    [r \in 1..Len(series) |->
        IF IsNaN(series[r]) THEN NaN
        ELSE [tag |-> "log1p", n |-> IF series[r].n < 0 THEN 0 ELSE series[r].n,
              d |-> 1, vn |-> 1, vd |-> 1]]

ScaleSeries(series, method) ==
    CASE method = "zscore" -> ZScoreSeries(series)
      [] method = "minmax" -> MinMaxSeries(series)
      [] method = "log1p"  -> Log1pSeries(series)
      [] OTHER             -> series

\* the for loop of scale_numeric_frame over column_names from position i on
RECURSIVE ScaleLoop(_, _, _, _)
ScaleLoop(t, column_names, i, method) ==
    IF i > Len(column_names) THEN t
    ELSE ScaleLoop(SetColumn(t, column_names[i],
                             ScaleSeries(Column(t, column_names[i]), method)),
                   column_names, i + 1, method)

\* the axis label; the en dash of the minmax label is written "-" here
YLabel(method) ==
    CASE method = "raw"    -> "Values"
      [] method = "zscore" -> "Z-score"
      [] method = "minmax" -> "Scaled 0-1"
      [] method = "log1p"  -> "log1p(value)"
      [] OTHER             -> "Values"

\* scaled = frame: no copy, the returned table is the caller's object
FrameCopy_alias(f) == [shared |-> TRUE, data |-> f]

\* frame.copy(): a new object; `shared` tells whether writes to the copy reach
\* the object it was made from
FrameCopy(f) == [shared |-> FALSE, data |-> f]

\* the call scale_numeric_frame(frame, column_names, method): the table and
\* label it returns, and the caller's frame object after the call
scale_numeric_frame(f, column_names, method) ==
    LET cp  == FrameCopy(f)
        out == IF method = "raw" THEN cp.data
               ELSE ScaleLoop(cp.data, column_names, 1, method)
    IN [scaled |-> out, ylabel |-> YLabel(method),
        frame  |-> IF cp.shared THEN out ELSE f]

---------------------------------------------------------------------------
(* Summary Builder: the first-month table of the Data page *)

\* the text of a column name of the model
ColumnText(col) ==
    CASE col = "temp_2m" -> <<116, 101, 109, 112, 95, 50, 109>>
      [] col = "station" -> <<115, 116, 97, 116, 105, 111, 110>>
      [] col = "wind"    -> <<119, 105, 110, 100>>
      [] col = "temp"    -> <<116, 101, 109, 112>>
      [] OTHER           -> <<>>

\* "Variable", "Row trend", "Min", "Mean", "Max"
DisplayColumns ==
    << <<86, 97, 114, 105, 97, 98, 108, 101>>,
       <<82, 111, 119, 32, 116, 114, 101, 110, 100>>,
       <<77, 105, 110>>, <<77, 101, 97, 110>>, <<77, 97, 120>> >>

\* months[-1]: the last month instead of the first
FirstMonth_last(months) == months[Len(months)]

\* first_month = months[0]
FirstMonth(months) == months[1]

\* time_indexed_data.loc[month_strings == first_month].copy()
FirstMonthData(t, first_month) ==
    LET month_strings == MonthStrings(t)
    IN TakeRows(t, Positions([i \in 1..Len(month_strings) |->
                                 month_strings[i] = first_month], 1))

\* float(series.min()), float(series.max()), float(series.mean()): NaN is
\* skipped, and the result is NaN when nothing is left
MinOf(series)  == IF Present(series) = {} THEN NaN ELSE Num(SeriesMin(series))
MaxOf(series)  == IF Present(series) = {} THEN NaN ELSE Num(SeriesMax(series))
MeanOf(series) ==
    IF Present(series) = {} THEN NaN
    ELSE [tag |-> "num", vn |-> 1, vd |-> 1, d |-> Cardinality(Present(series)),
          n |-> SumOver(Present(series), [r \in Present(series) |-> series[r].n])]

\* one entry of rows_for_display
SummaryRow(first_month_data, c) ==
    LET series == [r \in 1..Len(first_month_data.rows) |-> first_month_data.rows[r][c]]
    IN [Variable |-> prettify_column_name(ColumnText(first_month_data.columns[c])),
        column   |-> first_month_data.columns[c],
        trend    |-> series,
        Min      |-> MinOf(series),
        Mean     |-> MeanOf(series),
        Max      |-> MaxOf(series)]

\* main() of the Data page from the first-month section on: what it shows
DataPageView(t) ==
    LET months == list_distinct_month_strings_from_index(t) IN
    IF months = <<>>
    THEN [op |-> "data", shown |-> "no months", first_month |-> <<>>,
          subset |-> [kind |-> "none"], summary |-> <<>>, display_columns |-> <<>>]
    ELSE LET first_month      == FirstMonth(months)
             first_month_data == FirstMonthData(t, first_month)
             numeric_cols     == list_numeric_columns(first_month_data)
         IN IF numeric_cols = <<>>
            THEN [op |-> "data", shown |-> "no numeric columns", first_month |-> first_month,
                  subset |-> first_month_data, summary |-> <<>>, display_columns |-> <<>>]
            ELSE [op |-> "data", shown |-> "table", first_month |-> first_month,
                  subset |-> first_month_data,
                  summary |-> [k \in 1..Len(numeric_cols) |->
                                 SummaryRow(first_month_data, numeric_cols[k])],
                  display_columns |-> make_unique(DisplayColumns)]

---------------------------------------------------------------------------
(* Tabular Loader: load_data_from_mongo *)

ConnectionFailure == [kind |-> "error", error |-> "ServerSelectionTimeoutError"]

HasField(doc, field) == field \in DOMAIN doc

\* pd.to_numeric(value, errors="coerce") on the texts of the model: a string
\* of decimal digits is its number, anything else (and a missing field) is NaN
ParseNumber(s) == IF s # <<>> /\ AllDigits(s) THEN Num(DigitsVal(s)) ELSE NaN

\* the frame with dropna on start_time alone: rows without a quantity stay
MongoFrame_time_only(docs) ==
    LET start_time == [i \in 1..Len(docs) |->
                         IF HasField(docs[i], "start_time")
                         THEN ParseTime(docs[i]["start_time"]) ELSE NaT]
        quantity   == [i \in 1..Len(docs) |->
                         IF HasField(docs[i], "quantity_kwh")
                         THEN ParseNumber(docs[i]["quantity_kwh"]) ELSE NaN]
        keep == Positions([i \in 1..Len(docs) |-> start_time[i] # NaT], 1)
    IN [kind |-> "table",
        rows |-> [k \in 1..Len(keep) |->
                    [label        |-> keep[k] - 1,
                     start_time   |-> start_time[keep[k]],
                     quantity_kwh |-> quantity[keep[k]],
                     year         |-> start_time[keep[k]][1],
                     month        |-> start_time[keep[k]][2]]]]

\* lines 42-55: the frame of the fetched documents, parsed, without the rows
\* missing start_time or quantity_kwh, with the helper columns year and month
MongoFrame(docs) ==
    LET start_time == [i \in 1..Len(docs) |->
                         IF HasField(docs[i], "start_time")
                         THEN ParseTime(docs[i]["start_time"]) ELSE NaT]
        quantity   == [i \in 1..Len(docs) |->
                         IF HasField(docs[i], "quantity_kwh")
                         THEN ParseNumber(docs[i]["quantity_kwh"]) ELSE NaN]
        keep == Positions([i \in 1..Len(docs) |->
                             start_time[i] # NaT /\ ~IsNaN(quantity[i])], 1)
    IN [kind |-> "table",
        rows |-> [k \in 1..Len(keep) |->
                    [label        |-> keep[k] - 1,
                     start_time   |-> start_time[keep[k]],
                     quantity_kwh |-> quantity[keep[k]],
                     year         |-> start_time[keep[k]][1],
                     month        |-> start_time[keep[k]][2]]]]

\* no document has the field: the frame has no such column
MissingColumn(docs, field) == \A i \in 1..Len(docs) : ~HasField(docs[i], field)

\* a loader that answers a missing column with an empty table
load_data_from_mongo_lenient(docs, reachable) ==
    IF ~reachable THEN ConnectionFailure
    ELSE IF MissingColumn(docs, "start_time") \/ MissingColumn(docs, "quantity_kwh")
         THEN [kind |-> "table", rows |-> <<>>]
    ELSE MongoFrame(docs)

\* the body of load_data_from_mongo on the collection docs; `reachable` tells
\* whether a server answers within serverSelectionTimeoutMS
load_data_from_mongo(docs, reachable) ==
    IF ~reachable THEN ConnectionFailure
    ELSE IF MissingColumn(docs, "start_time") THEN KeyError
    ELSE IF MissingColumn(docs, "quantity_kwh") THEN KeyError
    ELSE MongoFrame(docs)

---------------------------------------------------------------------------
(* st.cache_data: results memoised by the arguments of the call *)

None == [kind |-> "none"]

\* one execution of the decorated function body: the source is read once
\* (pd.read_csv, coll.find) and the body returns or raises
CsvLoaderRuns(f) == {[reads |-> 1, result |-> r] : r \in load_time_indexed_data(f)}

MongoLoaderRun(docs, reachable) ==
    [reads |-> 1, result |-> load_data_from_mongo(docs, reachable)]

\* a call through the cache: a hit returns the stored value without running
\* the body; a miss runs it, and stores what it returns (never what it raises)
CacheHit(cache, args) == args \in DOMAIN cache

CacheAfter(cache, args, run) ==
    IF run.result.kind = "table" THEN cache @@ (args :> run.result) ELSE cache

---------------------------------------------------------------------------
(* Inputs of the model *)

\* "2019-12-31", "2020-01-05", "2020-02-01" and the unparsable "n/a"
Time20191231 == <<50, 48, 49, 57, 45, 49, 50, 45, 51, 49>>
Time20200105 == <<50, 48, 50, 48, 45, 48, 49, 45, 48, 53>>
Time20200201 == <<50, 48, 50, 48, 45, 48, 50, 45, 48, 49>>
TimeBad      == <<110, 47, 97>>
TimePool     == {Time20191231, Time20200105, Time20200201, TimeBad}

\* "2019-12", "2020-01", "2020-02"
Month201912 == <<50, 48, 49, 57, 45, 49, 50>>
Month202001 == <<50, 48, 50, 48, 45, 48, 49>>
Month202002 == <<50, 48, 50, 48, 45, 48, 50>>
MonthPool   == {Month201912, Month202001, Month202002}

HeaderPool  == {<<"time", "temp">>, <<"date", "temp">>}
FileRowPool == {<<t, Num(v)>> : t \in TimePool, v \in {1, 2}}
FilePool    == {[header |-> h, rows |-> rs] :
                   h \in HeaderPool, rs \in SeqsUpTo(FileRowPool, MaxFileRows)}

Methods     == {"raw", "zscore", "minmax", "log1p", "robust"}

\* frames with the numeric columns a and b, one row per day of January 2020
FrameRowPool == {<<a, b>> : a \in {NaN, Num(-2), Num(1), Num(3)}, b \in {Num(0), Num(4)}}
FramePool    == {[kind |-> "table", columns |-> <<"a", "b">>,
                  index |-> [r \in 1..Len(rs) |-> <<2020, 1, r>>], rows |-> rs] :
                    rs \in SeqsUpTo(FrameRowPool, MaxFrameRows)}
ColumnLists  == {<<>>, <<"a">>, <<"b">>, <<"a", "b">>, <<"b", "a">>}

\* the session: two file paths, two connection settings
Paths     == {"data/open-meteo-subset.csv", "data/other.csv"}
SecretIds == {"atlas-A", "atlas-B"}
SessionFilePool ==
    {[header |-> <<"time", "temp">>, rows |-> <<<<Time20200201, Num(1)>>, <<Time20200105, Num(2)>>>>],
     [header |-> <<"date", "temp">>, rows |-> <<<<Time20200105, Num(1)>>>>]}
Time20210105 == <<50, 48, 50, 49, 45, 48, 49, 45, 48, 53>>
CollectionPool ==
    {<<[start_time |-> Time20210105, quantity_kwh |-> <<49, 50>>],
       [start_time |-> TimeBad, quantity_kwh |-> <<55>>]>>,
     <<[start_time |-> Time20210105, quantity_kwh |-> <<51>>]>>,
     <<[quantity_kwh |-> <<51>>]>>}

NamesIdle == names = <<>> /\ outs = <<>>
TableIdle == file = [header |-> <<>>, rows |-> <<>>] /\ table = None /\ derived = [op |-> "none"]
ScaleIdle == frame = None /\ scaled = None
MongoIdle == found = <<>> /\ fetched = None
PrettyIdle == columns = <<>> /\ pretty = None
SessIdle  == /\ files = <<>>
             /\ store = <<>>
             /\ secrets = "atlas-A"
             /\ csvCache = <<>>
             /\ mongoCache = <<>>
             /\ loaded = {}
             /\ lastReq = None
             /\ nreq = 0

---------------------------------------------------------------------------
(* make_unique applied to a list of names, and again to its own output *)

InitNames ==
    /\ names \in SeqsUpTo(NamePool, MaxNames)
    /\ outs = <<>>
    /\ TableIdle /\ ScaleIdle /\ SessIdle /\ MongoIdle /\ PrettyIdle

MakeUniqueCall ==
    /\ outs = <<>>
    /\ outs' = <<make_unique(names)>>
    /\ UNCHANGED <<names, tableVars, scaleVars, sessVars, mongoVars, prettyVars>>

MakeUniqueAgain ==
    /\ outs # <<>>
    /\ Len(outs) < MaxApply
    /\ outs' = Append(outs, make_unique(outs[Len(outs)]))
    /\ UNCHANGED <<names, tableVars, scaleVars, sessVars, mongoVars, prettyVars>>

NextNames == MakeUniqueCall \/ MakeUniqueAgain

SpecNames == InitNames /\ [][NextNames]_vars

---------------------------------------------------------------------------
(* A file is loaded and the month helpers are applied to the table *)

InitTable ==
    /\ file \in FilePool
    /\ table = None
    /\ derived = [op |-> "none"]
    /\ NamesIdle /\ ScaleIdle /\ SessIdle /\ MongoIdle /\ PrettyIdle

LoadFile ==
    /\ table.kind = "none"
    /\ \E t \in load_time_indexed_data(file) : table' = t
    /\ UNCHANGED <<file, derived, namesVars, scaleVars, sessVars, mongoVars, prettyVars>>

DistinctMonths ==
    /\ table.kind = "table"
    /\ derived' = [op |-> "months", value |-> list_distinct_month_strings_from_index(table)]
    /\ UNCHANGED <<file, table, namesVars, scaleVars, sessVars, mongoVars, prettyVars>>

FilterByMonthRange ==
    /\ table.kind = "table"
    /\ \E start_month, end_month \in MonthPool :
          derived' = [op |-> "filter", start |-> start_month, end |-> end_month,
                      value |-> filter_by_month_range(table, start_month, end_month)]
    /\ UNCHANGED <<file, table, namesVars, scaleVars, sessVars, mongoVars, prettyVars>>

ScaleLoaded ==
    /\ table.kind = "table"
    /\ \E method \in Methods :
          derived' = [op |-> "scale", method |-> method,
                      value |-> scale_numeric_frame(table, <<"temp">>, method).scaled]
    /\ UNCHANGED <<file, table, namesVars, scaleVars, sessVars, mongoVars, prettyVars>>

NextTable == LoadFile \/ DistinctMonths \/ FilterByMonthRange \/ ScaleLoaded

SpecTable == InitTable /\ [][NextTable]_vars

---------------------------------------------------------------------------
(* scale_numeric_frame called on a frame *)

InitScale ==
    /\ frame \in FramePool
    /\ scaled = None
    /\ NamesIdle /\ TableIdle /\ SessIdle /\ MongoIdle /\ PrettyIdle

Scale ==
    /\ scaled.kind = "none"
    /\ \E column_names \in ColumnLists, method \in Methods :
          LET call == scale_numeric_frame(frame, column_names, method) IN
          /\ scaled' = [kind |-> "scaled", input |-> frame, columns |-> column_names,
                        method |-> method, table |-> call.scaled, ylabel |-> call.ylabel]
          /\ frame' = call.frame
    /\ UNCHANGED <<namesVars, tableVars, sessVars, mongoVars, prettyVars>>

NextScale == Scale

SpecScale == InitScale /\ [][NextScale]_vars

---------------------------------------------------------------------------
(* A session: pages request tables through the cached loaders *)

InitSession ==
    /\ files \in [Paths -> SessionFilePool]
    /\ store \in [SecretIds -> CollectionPool]
    /\ secrets \in SecretIds
    /\ csvCache = <<>>
    /\ mongoCache = <<>>
    /\ loaded = {}
    /\ lastReq = None
    /\ nreq = 0
    /\ NamesIdle /\ TableIdle /\ ScaleIdle /\ MongoIdle /\ PrettyIdle

Served(kind, src, miss, run) ==
    [kind |-> kind, src |-> src, miss |-> miss, reads |-> run.reads,
     result |-> run.result, before |-> loaded]

\* a page calls load_time_indexed_data(path)
RequestCsv ==
    /\ nreq < MaxRequests
    /\ \E path \in Paths :
          IF CacheHit(csvCache, <<path>>)
          THEN /\ lastReq' = Served("csv", path, FALSE,
                                    [reads |-> 0, result |-> csvCache[<<path>>]])
               /\ UNCHANGED <<csvCache, loaded>>
          ELSE \E run \in CsvLoaderRuns(files[path]) :
                  /\ lastReq' = Served("csv", path, TRUE, run)
                  /\ csvCache' = CacheAfter(csvCache, <<path>>, run)
                  /\ loaded' = IF run.result.kind = "table" THEN loaded \cup {path}
                               ELSE loaded
    /\ nreq' = nreq + 1
    /\ UNCHANGED <<files, store, secrets, mongoCache, namesVars, tableVars, scaleVars, mongoVars, prettyVars>>

\* the Elhub page calls load_data_from_mongo(); the settings are read from
\* st.secrets inside the body and are no argument of the call
RequestMongo ==
    /\ nreq < MaxRequests
    /\ IF CacheHit(mongoCache, <<>>)
       THEN /\ lastReq' = Served("mongo", secrets, FALSE,
                                 [reads |-> 0, result |-> mongoCache[<<>>]])
            /\ UNCHANGED <<mongoCache, loaded>>
       ELSE \E reachable \in BOOLEAN :
               LET run == MongoLoaderRun(store[secrets], reachable) IN
               /\ lastReq' = Served("mongo", secrets, TRUE, run)
               /\ mongoCache' = CacheAfter(mongoCache, <<>>, run)
               /\ loaded' = IF run.result.kind = "table" THEN loaded \cup {secrets}
                            ELSE loaded
    /\ nreq' = nreq + 1
    /\ UNCHANGED <<files, store, secrets, csvCache, namesVars, tableVars, scaleVars, mongoVars, prettyVars>>

\* the connection settings of the deployment are changed
ChangeSecrets ==
    /\ \E s \in SecretIds \ {secrets} : secrets' = s
    /\ UNCHANGED <<files, store, csvCache, mongoCache, loaded, lastReq, nreq,
                   namesVars, tableVars, scaleVars, mongoVars, prettyVars>>

NextSession == RequestCsv \/ RequestMongo \/ ChangeSecrets

SpecSession == InitSession /\ [][NextSession]_vars

---------------------------------------------------------------------------
(* prettify_column_name applied to a column name *)

\* "wind_speed_10m (m/s)", "temperature_2m (degrees C)" with the degree sign, "rain_10min (mm)"
NameWindSpeed   == <<119, 105, 110, 100, 95, 115, 112, 101, 101, 100, 95, 49, 48, 109,
                     32, 40, 109, 47, 115, 41>>
NameTemperature == <<116, 101, 109, 112, 101, 114, 97, 116, 117, 114, 101, 95, 50, 109,
                     32, 40, 176, 67, 41>>
NameRainMinutes == <<114, 97, 105, 110, 95, 49, 48, 109, 105, 110, 32, 40, 109, 109, 41>>

\* "Wind Speed 10 M (m/s)", "Temperature 2 M (degrees C)" with the degree sign
PrettyWindSpeed   == <<87, 105, 110, 100, 32, 83, 112, 101, 101, 100, 32, 49, 48, 32, 77,
                       32, 40, 109, 47, 115, 41>>
PrettyTemperature == <<84, 101, 109, 112, 101, 114, 97, 116, 117, 114, 101, 32, 50, 32, 77,
                       32, 40, 176, 67, 41>>

\* a, m, M, 1, _, space
BaseAlphabet == {97, 109, 77, 49, 95, 32}
\* " (m/s)", "(mm)"
UnitPool == {<<32, 40, 109, 47, 115, 41>>, <<40, 109, 109, 41>>}
BasePool == {b \in SeqsUpTo(BaseAlphabet, MaxBase) : Strip(b) # <<>>}
UnitNamePool == {b \o u : b \in BasePool, u \in UnitPool}
                   \cup {NameWindSpeed, NameTemperature, NameRainMinutes}

InitPrettify ==
    /\ \E name \in UnitNamePool : columns = <<name>>
    /\ pretty = None
    /\ NamesIdle /\ TableIdle /\ ScaleIdle /\ SessIdle /\ MongoIdle

Prettify ==
    /\ pretty.kind = "none"
    /\ pretty' = [kind |-> "pretty", value |-> prettify_column_name(columns[1])]
    /\ UNCHANGED <<columns, namesVars, tableVars, scaleVars, sessVars, mongoVars>>

NextPrettify == Prettify

SpecPrettify == InitPrettify /\ [][NextPrettify]_vars

---------------------------------------------------------------------------
(* The Charts page: labels for the numeric columns, and the column of a label *)

\* "a_b", "a b", "a b (2)", "A_B (2)", "temp", "c"
ColumnNamePool ==
    {<<97, 95, 98>>, <<97, 32, 98>>, <<97, 32, 98, 32, 40, 50, 41>>,
     <<65, 95, 66, 32, 40, 50, 41>>, <<116, 101, 109, 112>>, <<99>>}

\* the column names of a frame are pairwise distinct
ColumnNameLists == {cs \in SeqsUpTo(ColumnNamePool, MaxColumns) : NoDuplicates(cs)}

InitCharts ==
    /\ columns \in ColumnNameLists
    /\ pretty = None
    /\ NamesIdle /\ TableIdle /\ ScaleIdle /\ SessIdle /\ MongoIdle

BuildMappings ==
    /\ pretty.kind = "none"
    /\ columns # <<>>
    /\ LET maps == build_pretty_name_mappings(columns)
       IN pretty' = [kind |-> "mappings",
                     original_to_pretty |-> maps.original_to_pretty,
                     pretty_to_original |-> maps.pretty_to_original,
                     pretty_names |-> maps.pretties]
    /\ UNCHANGED <<columns, namesVars, tableVars, scaleVars, sessVars, mongoVars>>

SelectColumn ==
    /\ pretty.kind = "mappings"
    /\ \E k \in 1..Len(pretty.pretty_names) :
          LET selected_pretty == pretty.pretty_names[k]
          IN pretty' = [kind |-> "selected",
                        original_to_pretty |-> pretty.original_to_pretty,
                        pretty_to_original |-> pretty.pretty_to_original,
                        pretty_names |-> pretty.pretty_names,
                        option |-> k,
                        selected_pretty |-> selected_pretty,
                        selected_original |-> pretty.pretty_to_original[selected_pretty]]
    /\ UNCHANGED <<columns, namesVars, tableVars, scaleVars, sessVars, mongoVars>>

NextCharts == BuildMappings \/ SelectColumn

SpecCharts == InitCharts /\ [][NextCharts]_vars

---------------------------------------------------------------------------
(* filter_by_month_range applied again to its own result *)

FilterAgain ==
    /\ derived.op = "filter"
    /\ derived' = [op |-> "refilter", start |-> derived.start, end |-> derived.end,
                   once |-> derived.value,
                   value |-> filter_by_month_range(derived.value, derived.start, derived.end)]
    /\ UNCHANGED <<file, table, namesVars, scaleVars, sessVars, mongoVars, prettyVars>>

NextFilter == LoadFile \/ FilterByMonthRange \/ FilterAgain

SpecFilter == InitTable /\ [][NextFilter]_vars

---------------------------------------------------------------------------
(* The Data page: a file is loaded and its first month is summarised *)

\* "A"
StationA == <<65>>

DataRowPool == {<<t, Num(v), Str(StationA), w>> :
                   t \in {Time20200105, Time20200201, TimeBad},
                   v \in {1, 2}, w \in {NaN, Num(5)}}
DataFilePool == {[header |-> <<"time", "temp_2m", "station", "wind">>, rows |-> rs] :
                    rs \in SeqsUpTo(DataRowPool, MaxFileRows)}

InitData ==
    /\ file \in DataFilePool
    /\ table = None
    /\ derived = [op |-> "none"]
    /\ NamesIdle /\ ScaleIdle /\ SessIdle /\ MongoIdle /\ PrettyIdle

DataPage ==
    /\ table.kind = "table"
    /\ derived.op = "none"
    /\ derived' = DataPageView(table)
    /\ UNCHANGED <<file, table, namesVars, scaleVars, sessVars, mongoVars, prettyVars>>

NextData == LoadFile \/ DataPage

SpecData == InitData /\ [][NextData]_vars

---------------------------------------------------------------------------
(* load_data_from_mongo applied to a fetched collection *)

\* "12", "7" and the unparsable "n/a"
Qty12  == <<49, 50>>
Qty7   == <<55>>
QtyBad == <<110, 47, 97>>

DocPool ==
    {[start_time |-> Time20210105, quantity_kwh |-> Qty12],
     [start_time |-> Time20200201, quantity_kwh |-> Qty7],
     [start_time |-> TimeBad,      quantity_kwh |-> Qty7],
     [start_time |-> Time20210105, quantity_kwh |-> QtyBad],
     [quantity_kwh |-> Qty12],
     [start_time |-> Time20200201]}

InitMongo ==
    /\ found \in SeqsUpTo(DocPool, MaxDocs)
    /\ fetched = None
    /\ NamesIdle /\ TableIdle /\ ScaleIdle /\ SessIdle /\ PrettyIdle

\* df_all = load_data_from_mongo() with an empty cache
MongoFetch ==
    /\ fetched.kind = "none"
    /\ \E reachable \in BOOLEAN : fetched' = load_data_from_mongo(found, reachable)
    /\ UNCHANGED <<found, namesVars, tableVars, scaleVars, sessVars, prettyVars>>

NextMongo == MongoFetch

SpecMongo == InitMongo /\ [][NextMongo]_vars

---------------------------------------------------------------------------
(* Properties *)

\* the index is sorted ascending: no entry is followed by a smaller one, and
\* every two entries compare (an absent entry compares with nothing)
SortedAscending(index) == \A i, j \in 1..Len(index) : i < j => TsLeq(index[i], index[j])

\* text of the form YYYY-MM
IsMonthLabel(s) ==
    /\ Len(s) = 7
    /\ s[5] = 45
    /\ AllDigits(SubSeq(s, 1, 4))
    /\ AllDigits(SubSeq(s, 6, 7))

\* C1: make_unique never returns a list holding the same name twice, also when
\* a later name already has the form of a generated suffix.
Claim_C1_OutputUnique == outs # <<>> => NoDuplicates(outs[1])

\* the rows of the file whose time value parses
ParsedRows(f) == {r \in 1..Len(f.rows) : ParseTime(f.rows[r][1]) # NaT}

\* how often the row (timestamp t, cells c) occurs in the table
CountInTable(t, ts, cells) ==
    Cardinality({i \in 1..Len(t.rows) : t.index[i] = ts /\ t.rows[i] = cells})

\* C2: the table loaded from a file holds exactly the rows whose time parsed
\* (rows with an unparsable time are dropped), sorted ascending by timestamp;
\* a 3-row file with one unparsable time gives a 2-row table.
Claim_C2_BadRowsDropped ==
    (table.kind = "table" /\ file.header = <<"time", "temp">>) =>
        /\ Len(table.rows) = Cardinality(ParsedRows(file))
        /\ \A r \in ParsedRows(file) :
              CountInTable(table, ParseTime(file.rows[r][1]), <<file.rows[r][2]>>)
                = Cardinality({q \in ParsedRows(file) : file.rows[q] = file.rows[r]})
        /\ SortedAscending(table.index)

\* C3: a request returns a table without reading the source only when a table
\* was already loaded for the source identity it asks for (so a request after
\* the identity changed reads the source again), and the source of an identity
\* a table was loaded for is not read again.
Claim_C3_CachePerSource ==
    (lastReq.kind # "none" /\ lastReq.result.kind = "table") =>
        /\ lastReq.reads = 0 => lastReq.src \in lastReq.before
        /\ lastReq.reads > 0 => lastReq.src \notin lastReq.before

\* the positions of the loaded table whose month label lies in [start, end]
InMonthRange(t, start, end) ==
    {i \in 1..Len(t.index) :
        /\ t.index[i] # NaT
        /\ StrLeq(start, MonthStr(t.index[i]))
        /\ StrLeq(MonthStr(t.index[i]), end)}

\* the k-th smallest element of the set of positions K
Nth(K, k) == CHOOSE i \in K : Cardinality({j \in K : j < i}) = k - 1

\* C4: filter_by_month_range returns exactly the rows whose YYYY-MM label m
\* satisfies start <= m <= end lexicographically, in their original order;
\* with start > end the result is an empty table and no error.
Thm_C4_FilterExactRange ==
    derived.op = "filter" =>
        LET K == InMonthRange(table, derived.start, derived.end)
            out == derived.value
        IN /\ out.kind = "table"
           /\ out.columns = table.columns
           /\ Len(out.rows) = Cardinality(K)
           /\ Len(out.index) = Cardinality(K)
           /\ \A k \in 1..Cardinality(K) :
                 /\ out.index[k] = table.index[Nth(K, k)]
                 /\ out.rows[k] = table.rows[Nth(K, k)]
           /\ StrLess(derived.end, derived.start) => out.rows = <<>>

\* C4 happens: a filter kept some rows and left out others, one of them a row
\* with an absent time index
Wit_C4_FilterKeptSome ==
    /\ derived.op = "filter"
    /\ Len(derived.value.rows) > 0
    /\ Len(derived.value.rows) + 1 < Len(table.rows)
    /\ \E i \in 1..Len(table.index) : table.index[i] = NaT

\* C5: the table of the file loader and every table derived from it by
\* filter_by_month_range or scale has its rows sorted ascending by time index.
Claim_C5_TablesSorted ==
    /\ table.kind = "table" => SortedAscending(table.index)
    /\ derived.op \in {"filter", "scale"} => SortedAscending(derived.value.index)

\* C6: distinct_months is sorted ascending without duplicates, holds exactly
\* the YYYY-MM labels of the time index entries, and is empty for no rows.
Claim_C6_DistinctMonths ==
    derived.op = "months" =>
        LET ms == derived.value IN
        /\ \A i, j \in 1..Len(ms) : i < j => StrLess(ms[i], ms[j])
        /\ \A k \in 1..Len(ms) : IsMonthLabel(ms[k])
        /\ {ms[k] : k \in 1..Len(ms)} = {MonthStr(table.index[i]) : i \in 1..Len(table.index)}
        /\ table.rows = <<>> => ms = <<>>

\* the load of the last request failed structurally: the file has no column
\* named time, no document has a required field, or no server answered
StructuralFailure ==
    /\ lastReq.kind # "none"
    /\ lastReq.miss
    /\ IF lastReq.kind = "csv"
       THEN \A k \in 1..Len(files[lastReq.src].header) : files[lastReq.src].header[k] # "time"
       ELSE \/ lastReq.result = ConnectionFailure
            \/ \E field \in {"start_time", "quantity_kwh"} :
                  \A i \in 1..Len(store[lastReq.src]) : field \notin DOMAIN store[lastReq.src][i]

\* C7: a load that fails structurally surfaces the failure to the caller, returns
\* no table, and reads the source once only (no retry); nothing is cached for it.
Thm_C7_FailureSurfaced ==
    StructuralFailure =>
        /\ lastReq.result.kind = "error"
        /\ lastReq.reads = 1
        /\ lastReq.kind = "csv" => ~CacheHit(csvCache, <<lastReq.src>>)
        /\ lastReq.kind = "mongo" => ~CacheHit(mongoCache, <<>>)

\* C7 happens: a request for a collection whose documents lack start_time
Wit_C7_MissingField ==
    /\ StructuralFailure
    /\ lastReq.kind = "mongo"
    /\ lastReq.result = KeyError

\* C8: make_unique applied to its own output returns that output.
Claim_C8_Idempotent == Len(outs) >= 2 => outs[2] = outs[1]

\* C9: minmax gives a selected column only values in [0, 1] when its max
\* differs from its min, and the value 0 everywhere when max equals min.
Thm_C9_MinMaxRange ==
    (scaled.kind = "scaled" /\ scaled.method = "minmax") =>
        \A k \in 1..Len(scaled.columns) :
            LET in  == Column(scaled.input, scaled.columns[k])
                out == Column(scaled.table, scaled.columns[k])
                varied == \E r, q \in 1..Len(in) :
                             ~IsNaN(in[r]) /\ ~IsNaN(in[q]) /\ in[r].n # in[q].n
            IN \A r \in 1..Len(in) :
                  IF IsNaN(in[r]) THEN IsNaN(out[r])
                  ELSE /\ out[r].tag = "num"
                       /\ out[r].vn = out[r].vd
                       /\ out[r].d > 0
                       /\ IF varied THEN 0 <= out[r].n /\ out[r].n <= out[r].d
                          ELSE out[r].n = 0

\* C9 happens: column a has a value strictly inside (0, 1) after minmax, and
\* column b, constant, is 0 everywhere
Wit_C9_BothCases ==
    /\ scaled.kind = "scaled"
    /\ scaled.method = "minmax"
    /\ scaled.columns = <<"a", "b">>
    /\ \E r \in 1..Len(scaled.table.rows) :
          /\ scaled.table.rows[r][1].tag = "num"
          /\ 0 < scaled.table.rows[r][1].n
          /\ scaled.table.rows[r][1].n < scaled.table.rows[r][1].d
    /\ \A r \in 1..Len(scaled.table.rows) :
          scaled.input.rows[r][2] = Num(4) /\ scaled.table.rows[r][2].n = 0

\* C10: scale leaves the caller's frame as it was and returns a table whose
\* columns not listed equal the input's; with method raw every column does.
Thm_C10_ScaleFrame ==
    scaled.kind = "scaled" =>
        /\ frame = scaled.input
        /\ scaled.table.columns = scaled.input.columns
        /\ scaled.table.index = scaled.input.index
        /\ \A c \in 1..Len(scaled.input.columns) :
              (\A k \in 1..Len(scaled.columns) : scaled.columns[k] # scaled.input.columns[c])
                 => Column(scaled.table, scaled.input.columns[c])
                      = Column(scaled.input, scaled.input.columns[c])
        /\ scaled.method = "raw" => scaled.table = scaled.input

\* C10 happens: a scaling changed column a and column b was not listed
Wit_C10_OneColumnScaled ==
    /\ scaled.kind = "scaled"
    /\ scaled.columns = <<"a">>
    /\ scaled.method \in {"zscore", "minmax", "log1p"}
    /\ Column(scaled.table, "a") # Column(scaled.input, "a")
    /\ Len(scaled.input.rows) >= 2

\* the documents whose start_time is present and parses as a timestamp and
\* whose quantity_kwh is present and parses as a number
CompleteDocs(ds) ==
    {i \in 1..Len(ds) :
        /\ "start_time" \in DOMAIN ds[i]
        /\ ParseTime(ds[i]["start_time"]) # NaT
        /\ "quantity_kwh" \in DOMAIN ds[i]
        /\ ~IsNaN(ParseNumber(ds[i]["quantity_kwh"]))}

\* C11: a table returned by the document-store loader holds exactly the fetched
\* documents whose start_time parsed as a timestamp and whose quantity_kwh
\* parsed as a number, in fetch order, and the year and month of each row are
\* those of its start_time.
Thm_C11_MongoRows ==
    fetched.kind = "table" =>
        LET K == CompleteDocs(found) IN
        /\ Len(fetched.rows) = Cardinality(K)
        /\ \A k \in 1..Cardinality(K) :
              LET row == fetched.rows[k]
                  doc == found[Nth(K, k)]
              IN /\ row.label = Nth(K, k) - 1
                 /\ row.start_time = ParseTime(doc["start_time"])
                 /\ row.quantity_kwh = Num(DigitsVal(doc["quantity_kwh"]))
                 /\ row.year = DigitsVal(SubSeq(doc["start_time"], 1, 4))
                 /\ row.month = DigitsVal(SubSeq(doc["start_time"], 6, 7))

\* C11 happens: a table was returned that kept some documents and dropped
\* one with an unparsable value and one with a missing field
Wit_C11_SomeDropped ==
    /\ fetched.kind = "table"
    /\ Len(fetched.rows) = 1
    /\ Len(found) = 3
    /\ \E i \in 1..Len(found) : "start_time" \notin DOMAIN found[i]
    /\ \E i \in 1..Len(found) :
          "quantity_kwh" \in DOMAIN found[i] /\ found[i]["quantity_kwh"] = QtyBad

\* the YYYY-MM labels of the time index entries of the table
MonthLabels(t) == {MonthStr(t.index[i]) : i \in {j \in 1..Len(t.index) : t.index[j] # NaT}}

\* the columns of the table whose cells are all numbers or absent
NumericPositions(t) ==
    {c \in 1..Len(t.columns) : \A r \in 1..Len(t.rows) : t.rows[r][c].tag # "str"}

\* C12: for a loaded table spanning more than one month the first-month subset
\* holds exactly the rows whose label is the smallest month label, and the
\* summary has one row per numeric column, in column order, with the column's
\* values of the subset in time order as trend and their smallest and largest
\* as min and max.
Thm_C12_FirstMonthSummary ==
    (derived.op = "data" /\ Cardinality(MonthLabels(table)) > 1) =>
        LET first == derived.first_month
            K  == {i \in 1..Len(table.index) : MonthStr(table.index[i]) = first}
            NC == NumericPositions(table)
            sub == derived.subset
        IN /\ derived.shown = "table"
           /\ first \in MonthLabels(table)
           /\ \A m \in MonthLabels(table) : StrLeq(first, m)
           /\ Len(sub.rows) = Cardinality(K)
           /\ \A k \in 1..Cardinality(K) :
                 sub.index[k] = table.index[Nth(K, k)] /\ sub.rows[k] = table.rows[Nth(K, k)]
           /\ SortedAscending(sub.index)
           /\ Len(derived.summary) = Cardinality(NC)
           /\ \A k \in 1..Cardinality(NC) :
                 LET row  == derived.summary[k]
                     c    == Nth(NC, k)
                     vals == {sub.rows[r][c].n : r \in {q \in 1..Len(sub.rows) : ~IsNaN(sub.rows[q][c])}}
                 IN /\ row.column = table.columns[c]
                    /\ Len(row.trend) = Len(sub.rows)
                    /\ \A r \in 1..Len(sub.rows) : row.trend[r] = sub.rows[r][c]
                    /\ vals # {} => /\ row.Min.tag = "num" /\ row.Min.d = 1
                                    /\ row.Min.n \in vals
                                    /\ \A v \in vals : row.Min.n <= v
                                    /\ row.Max.tag = "num" /\ row.Max.d = 1
                                    /\ row.Max.n \in vals
                                    /\ \A v \in vals : row.Max.n >= v

\* C12 happens: a table of two months and a row with an absent time index was
\* summarised, the first month holding two rows with different temperatures
Wit_C12_TwoMonths ==
    /\ derived.op = "data"
    /\ Cardinality(MonthLabels(table)) = 2
    /\ Len(derived.subset.rows) = 2
    /\ Len(derived.summary) = 2
    /\ derived.summary[1].Min # derived.summary[1].Max
    /\ derived.first_month = Month202001

\* C13: filtering the result of filter_by_month_range(t, m, m) by the same
\* single month m again gives a table with the same rows.
Thm_C13_FilterIdempotent ==
    (derived.op = "refilter" /\ derived.start = derived.end) =>
        /\ derived.value.index = derived.once.index
        /\ derived.value.rows = derived.once.rows
        /\ derived.value.columns = derived.once.columns

\* C13 happens: a single-month filter that kept two rows and dropped another
\* was applied again to its result
Wit_C13_FilteredTwice ==
    /\ derived.op = "refilter"
    /\ derived.start = derived.end
    /\ Len(derived.once.rows) = 2
    /\ Len(table.rows) = 3

\* the parts of a column name that ends with a parenthesized unit suffix: the
\* suffix runs from the white space before the first "(" of the trimmed name to
\* its end, the base is what stands before it
NameParts(name) ==
    LET s == Strip(name)
        q == CHOOSE i \in 1..Len(s) : s[i] = 40 /\ \A j \in 1..(i - 1) : s[j] # 40
        p == CHOOSE i \in 1..q : /\ \A j \in i..(q - 1) : IsSpace(s[j])
                                 /\ (i = 1 \/ ~IsSpace(s[i - 1]))
    IN [base |-> SubSeq(s, 1, p - 1), suffix |-> SubSeq(s, p, Len(s))]

IsGap(c)   == IsSpace(c) \/ c = 95
NotGap(c)  == ~IsGap(c)
IsAlnum(c) == IsLetter(c) \/ IsDigit(c)

\* the characters of a text that are neither white space nor underscores, in
\* lower case
Skeleton(s) == LET kept == SelectSeq(s, NotGap) IN [i \in 1..Len(kept) |-> ToLower(kept[i])]

\* how many runs of underscores and white space separate two words of the base
GapCount(s) ==
    Cardinality({i \in 2..Len(s) : IsGap(s[i]) /\ ~IsGap(s[i - 1])
                                   /\ \E j \in (i + 1)..Len(s) : ~IsGap(s[j])})

\* the places of the base where a digit is immediately followed by m or M
DigitM(s) == {i \in 1..(Len(s) - 1) : IsDigit(s[i]) /\ s[i + 1] \in {109, 77}}
\* those of them where that m or M ends a word
DigitMWordEnd(s) == {i \in DigitM(s) : i + 1 = Len(s) \/ ~IsAlnum(s[i + 2])}

\* the result is the suffix unchanged after a transformed base that has single
\* spaces for the runs of underscores and white space between words, the same
\* characters otherwise, and every letter raised that follows no letter
PrettyShape(name, out) ==
    LET parts == NameParts(name)
        n == Len(out) - Len(parts.suffix)
        B == SubSeq(out, 1, n)
    IN /\ n >= 0
       /\ SubSeq(out, n + 1, Len(out)) = parts.suffix
       /\ Skeleton(B) = Skeleton(parts.base)
       /\ \A i \in 1..n : B[i] # 95 /\ (IsSpace(B[i]) => B[i] = 32)
       /\ n > 0 => B[1] # 32 /\ B[n] # 32
       /\ \A i \in 1..(n - 1) : ~(B[i] = 32 /\ B[i + 1] = 32)
       /\ \A i \in 1..n : IsLetter(B[i]) => (IsUpper(B[i]) <=> (i = 1 \/ ~IsLetter(B[i - 1])))

PrettyBase(name, out) == SubSeq(out, 1, Len(out) - Len(NameParts(name).suffix))
SpaceCount(s) == Cardinality({i \in 1..Len(s) : s[i] = 32})

\* C14: a column name that ends with a parenthesized unit suffix is rendered as
\* its transformed base followed by the suffix unchanged, and one space stands
\* between a digit sequence and a following letter m exactly where that m ends
\* a word; the two names of the specification give the stated results.
Thm_C14_PrettifyWordEndM ==
    pretty.kind = "pretty" =>
        LET name == columns[1]
            out  == pretty.value
            base == NameParts(name).base
        IN /\ PrettyShape(name, out)
           /\ DigitMWordEnd(PrettyBase(name, out)) = {}
           /\ SpaceCount(PrettyBase(name, out)) = GapCount(base) + Cardinality(DigitMWordEnd(base))
           /\ name = NameWindSpeed => out = PrettyWindSpeed
           /\ name = NameTemperature => out = PrettyTemperature

\* C14 as stated: one space stands between any digit sequence and an
\* immediately following letter m.
Cex_C14_PrettifyAnyM ==
    pretty.kind = "pretty" =>
        LET name == columns[1]
            out  == pretty.value
            base == NameParts(name).base
        IN /\ PrettyShape(name, out)
           /\ DigitM(PrettyBase(name, out)) = {}
           /\ SpaceCount(PrettyBase(name, out)) = GapCount(base) + Cardinality(DigitM(base))

\* C14 happens: a name with underscores, a digit sequence before a final m and
\* a unit suffix was rendered with the space inserted
Wit_C14_SpaceInserted ==
    /\ pretty.kind = "pretty"
    /\ columns[1] = NameWindSpeed
    /\ pretty.value = PrettyWindSpeed

\* C15: for pairwise distinct column names the two mappings are inverse to
\* each other, pretty_to_original[original_to_pretty[c]] = c for every column
\* c, and the column plotted for a selected label is the column the label was
\* derived from.
Claim_C15_MappingsInverse ==
    /\ pretty.kind \in {"mappings", "selected"} =>
          \A i \in 1..Len(columns) :
              pretty.pretty_to_original[pretty.original_to_pretty[columns[i]]] = columns[i]
    /\ pretty.kind = "selected" => pretty.selected_original = columns[pretty.option]

====
